---- MODULE Spec2Model ----
(***************************************************************************)
(* Model of lucent's feature-visualisation entry point render_vis          *)
(* (src/lucent/optvis/render.py): setup, the optional verbose warm-up, the *)
(* optimisation step loop with its closure, the KeyboardInterrupt handler  *)
(* with its y/n prompt, and finalisation; of tensor_to_img_array; of the  *)
(* transform setup of render_vis; and of get_model_layers                  *)
(* (src/lucent/modelzoo/util.py).                                          *)
(*                                                                         *)
(* In the step loop an image is abstracted by the number of parameter      *)
(* updates that produced it; tensor_to_img_array is modelled element by    *)
(* element in a specification of its own.  An activation in the hook       *)
(* registry is abstracted by the forward pass that captured it: the most   *)
(* recent one ("latest"), an earlier one ("earlier"), or none ("none").    *)
(***************************************************************************)
EXTENDS Integers, Sequences, FiniteSets, TLC

\* ------------------------------------------------------------------ bounds
MaxT == 3          \* largest threshold a caller passes
MaxLen == 2        \* longest thresholds collection a caller passes
MaxClosure == 2    \* most closure invocations of the optimizer in one step
NLayers == 2       \* hooked layers of the model, in forward order
MaxBatch == 2      \* largest batch size of an image tensor
MaxSide == 2       \* largest height and width of an image tensor
MaxElems == 6      \* most elements of an image tensor

Layers == 1..NLayers
\* first layer whose computation raises in a forward pass; NoFail: none does
NoFail == NLayers + 1
FailPoints == 1..NoFail

\* what the user may type at the prompt of line 178
Answers == {"y", "n", "yes"}
\* what the caller may pass as image_name (line 47): None or a file name
ImageNames == {"None", "vis.png"}

VARIABLES
    thresholds,   \* argument thresholds, a non-empty sequence of positive ints
    verbose,      \* argument verbose
    pc,           \* position of render_vis
    i,            \* loop variable of line 141; 0: not yet bound
    images,       \* list images of line 139; a snapshot is [step, params]
    params,       \* number of completed parameter updates
    steps,        \* number of calls of optimizer.step
    inStep,       \* closure invocations of the optimizer.step call in progress
    failedInStep, \* those of them whose forward pass raised RuntimeError
    backsInStep,  \* those of them that reached loss.backward()
    warnings,     \* warnings.warn calls of line 151
    hook,         \* registry: layer -> "none", "earlier" or "latest"
    reached,      \* layers whose hook fired in the most recent forward pass
    lastEval,     \* registry seen by the last objective_f(hook), if any
    interrupted,  \* a KeyboardInterrupt was delivered inside the try statement
    interrupt,    \* variable interrupt of line 176: "None" or the last answer
    error,        \* exception that left render_vis, "none" if none
    fin,          \* what finalisation (lines 182-188) read and did
    run,          \* 0: a single call; 1, 2: first and second call of a compared pair
    log,          \* run 1: what model, optimizer and user did so far
    todo,         \* run 2: what they are still to do
    prev,         \* run 2: what run 1 did
    tensor,       \* input of tensor_to_img_array: [shape, at]
    array,        \* its result
    phases,       \* what the most recent closure invocation did, in order
    root,         \* what get_model_layers is given as model
    net,          \* its submodules: a set of [pos, name, kind]
    layers,       \* what get_model_layers did
    given,        \* a transform list the caller owns
    standard,     \* transform.standard_transforms, shared by all calls
    pipeline,     \* the list render_vis composed in its most recent setup
    call,         \* the arguments of that call
    ncalls        \* number of setups so far

argVars == <<thresholds, verbose>>
loopVars == <<i, images, params, steps, inStep, failedInStep, backsInStep,
              warnings, phases>>
hookVars == <<hook, reached, lastEval>>
pairVars == <<run, log, todo, prev>>
imgVars == <<tensor, array>>
netVars == <<root, net, layers>>
setupVars == <<given, standard, pipeline, call, ncalls>>
vars == <<argVars, pc, loopVars, hookVars, interrupted, interrupt, error, fin,
          pairVars, imgVars, netVars, setupVars>>

\* ----------------------------------------------------------------- helpers
ThresholdInputs == UNION {[1..n -> 1..MaxT] : n \in 1..MaxLen}

Range(s) == {s[k] : k \in 1..Len(s)}

\* max(thresholds), line 141
MaxOf(th) == CHOOSE m \in Range(th) : \A x \in Range(th) : x <= m

\* mutant: the loop runs to the first threshold passed, not to the largest
LoopDoneFirst(k, th) == k >= th[1]

\* range(1, max(thresholds) + 1) has no value after k
LoopDone(k, th) == k >= MaxOf(th)

\* mutant: a snapshot is taken after every step
InThresholdsAlways(k, th) == TRUE

\* i in thresholds, line 162
InThresholds(k, th) == \E j \in 1..Len(th) : th[j] = k

\* tensor_to_img_array(image_f()) taken in step k after p parameter updates
Snapshot(k, p) == [step |-> k, params |-> p]

\* images.append(image), line 168
ThresholdImages(imgs, k, p) == Append(imgs, Snapshot(k, p))

\* mutant: the handler does not append the final snapshot
HandlerImagesKept(imgs, k, p) == imgs

\* images.append(tensor_to_img_array(image_f())), line 173
HandlerImages(imgs, k, p) == Append(imgs, Snapshot(k, p))

NoFin == [ran |-> FALSE, save_image |-> FALSE, image_name |-> "unread",
          show_inline |-> "unread", show_image |-> "unread",
          exported |-> FALSE, inline |-> FALSE, viewed |-> FALSE]
NoPrev == [steps |-> 0, params |-> 0, images |-> <<>>, error |-> "none"]
NoEval == [done |-> FALSE, reached |-> 0, hook |-> [l \in Layers |-> "none"]]
NoTensor == [shape |-> <<0, 0, 0, 0>>, at |-> <<>>]
\* get_model_layers has not been called
NoLayers == [called |-> FALSE, error |-> "none", getLayerRepr |-> FALSE,
             excludeNorms |-> FALSE, excludeActs |-> FALSE,
             excludePools |-> FALSE, paths |-> <<>>, origin |-> <<>>]
\* no setup of render_vis has run
NoCall == [transforms |-> "None", source |-> <<>>, preprocess |-> FALSE,
           model |-> "None", preprocess_f |-> "None",
           fixed_image_size |-> [given |-> FALSE, size |-> 0],
           height |-> 0, width |-> 0]

\* the variables of get_model_layers while another function is modelled
NetIdle == root = "Module" /\ net = {} /\ layers = NoLayers

\* the variables of the transform setup while another function is modelled
SetupIdle ==
    /\ given = <<>>
    /\ standard = <<>>
    /\ pipeline = <<>>
    /\ call = NoCall
    /\ ncalls = 0

\* ------------------------------------------------- environment events
\* In a single call (run = 0) the model, the optimizer and the user behave
\* freely.  In a compared pair the first call records what they did and the
\* second call meets the same behaviour, in the same order.
Event(kind, at, f) == [kind |-> kind, at |-> at, f |-> f]

Env(e) == run # 2 \/ (todo # <<>> /\ Head(todo) = e)

\* no interruption of the first call is due at this position of the second
Undisturbed ==
    ~(run = 2 /\ todo # <<>> /\ Head(todo).kind = "interrupt"
              /\ Head(todo).at = pc)

Logged(e) ==
    /\ log' = IF run = 1 THEN Append(log, e) ELSE log
    /\ todo' = IF run = 2 THEN Tail(todo) ELSE todo
    /\ UNCHANGED <<run, prev>>

\* --------------------------------------------------------- forward pass
\* model(transform_f(image_f())) with the hooks of hook_model installed: the
\* pass runs the layers in order and raises at layer f (NoFail: nowhere).
\* Every layer that completed stored its output in the registry; the entry
\* of any other layer is left as it was.
Forward(h, f) ==
    [l \in Layers |-> IF l < f THEN "latest"
                      ELSE IF h[l] = "latest" THEN "earlier" ELSE h[l]]

\* layers whose hook fired in a pass that stopped at f
Reached(f) == f - 1

\* objective_f(hook): reads the registry as it is at the call
Evaluate(h, r) == [done |-> TRUE, reached |-> r, hook |-> h]

\* -------------------------------------------------------------- closure
\* mutant: the warning is issued whatever the loop variable is
WarnsAlways(k, f) == f # NoFail

\* lines 146-156: the warning is issued when the forward pass raised
\* RuntimeError and the loop variable is 1
Warns(k, f) == f # NoFail /\ k = 1

\* lines 157-159 follow the try statement: they run whether or not the
\* forward pass raised RuntimeError
ClosureContinues(f) == TRUE

\* mutant: the loss is computed before the forward pass
ClosurePhasesEvalFirst(done) ==
    SubSeq(<<"zero_grad", "objective", "transform", "forward", "backward">>,
           1, done)

\* lines 143-158: the calls of one closure invocation, in program order,
\* up to the done-th; the except clause of lines 146-156 only warns
ClosurePhases(done) ==
    SubSeq(<<"zero_grad", "transform", "forward", "objective", "backward">>,
           1, done)

\* mutant: the objective is evaluated before the forward pass
ClosureRegistryBefore(h, f) == h

\* the registry that objective_f(hook) of line 157 reads is the one the
\* forward pass of line 145 left
ClosureRegistry(h, f) == Forward(h, f)

\* ---------------------------------------------------------------- Init
Start(r, ths) ==
    /\ thresholds \in ths
    /\ verbose \in BOOLEAN
    /\ pc = "setup"
    /\ i = 0
    /\ images = <<>>
    /\ params = 0
    /\ steps = 0
    /\ inStep = 0
    /\ failedInStep = 0
    /\ backsInStep = 0
    /\ warnings = 0
    /\ phases = <<>>
    /\ hook = [l \in Layers |-> "none"]
    /\ reached = 0
    /\ lastEval = NoEval
    /\ interrupted = FALSE
    /\ interrupt = "None"
    /\ error = "none"
    /\ fin = NoFin
    /\ run = r
    /\ log = <<>>
    /\ todo = <<>>
    /\ prev = NoPrev
    /\ tensor = NoTensor
    /\ array = NoTensor
    /\ NetIdle
    /\ SetupIdle

\* a single call of render_vis
Init == Start(0, ThresholdInputs)

\* ------------------------------------------------------------- actions
\* lines 90-133: parameterization, optimizer, transforms, hook_model,
\* as_objective
Setup ==
    /\ pc = "setup"
    /\ pc' = IF verbose THEN "warmup" ELSE "enter"
    /\ hook' = [l \in Layers |-> "none"]
    /\ UNCHANGED <<argVars, loopVars, reached, lastEval, interrupted, interrupt,
                   error, fin, pairVars, imgVars, netVars, setupVars>>

\* lines 135-137: one forward pass outside any try statement, then the
\* objective is evaluated and printed
WarmUp(f) ==
    /\ pc = "warmup"
    /\ hook' = Forward(hook, f)
    /\ reached' = Reached(f)
    /\ IF f # NoFail
       THEN /\ error' = "RuntimeError"
            /\ pc' = "raised"
            /\ UNCHANGED lastEval
       ELSE /\ lastEval' = Evaluate(hook', reached')
            /\ pc' = "enter"
            /\ UNCHANGED error
    /\ UNCHANGED <<argVars, loopVars, interrupted, interrupt, fin, pairVars,
                   imgVars, netVars, setupVars>>

\* lines 139-141: images = [], the try statement is entered and the tqdm
\* iterator over range(1, max(thresholds) + 1) is built; progress only
\* switches the rendering of the bar
EnterLoop ==
    /\ pc = "enter"
    /\ images' = <<>>
    /\ pc' = "loop"
    /\ UNCHANGED <<argVars, i, params, steps, inStep, failedInStep, backsInStep,
                   warnings, phases, hookVars, interrupted, interrupt, error, fin,
                   pairVars, imgVars, netVars, setupVars>>

\* line 141: the iterator yields the next i and optimizer.step(closure) of
\* line 161 is called, or the iterator is exhausted and the loop ends
LoopNext ==
    /\ pc = "loop"
    /\ Undisturbed
    /\ IF LoopDone(i, thresholds)
       THEN /\ pc' = "final"
            /\ UNCHANGED <<i, steps>>
       ELSE /\ i' = i + 1
            /\ steps' = steps + 1
            /\ pc' = "opt"
    /\ UNCHANGED <<argVars, images, params, inStep, failedInStep, backsInStep,
                   warnings, phases, hookVars, interrupted, interrupt, error, fin,
                   pairVars, imgVars, netVars, setupVars>>

\* lines 142-159: one invocation of closure by the optimizer
Closure(f) ==
    /\ pc = "opt"
    /\ inStep < MaxClosure
    /\ Env(Event("closure", pc, f))
    /\ Logged(Event("closure", pc, f))
    /\ inStep' = inStep + 1
    /\ hook' = Forward(hook, f)
    /\ reached' = Reached(f)
    /\ failedInStep' = IF f # NoFail THEN failedInStep + 1 ELSE failedInStep
    /\ warnings' = IF Warns(i, f) THEN warnings + 1 ELSE warnings
    /\ IF ClosureContinues(f)
       THEN /\ lastEval' = Evaluate(ClosureRegistry(hook, f), reached')
            /\ backsInStep' = backsInStep + 1
            /\ phases' = ClosurePhases(5)
       ELSE /\ phases' = ClosurePhases(3)
            /\ UNCHANGED <<lastEval, backsInStep>>
    /\ UNCHANGED <<argVars, pc, i, images, params, steps, interrupted, interrupt,
                   error, fin, imgVars, netVars, setupVars>>

\* line 161: the optimizer updates the parameters and optimizer.step returns
StepReturn ==
    /\ pc = "opt"
    /\ Env(Event("return", pc, 0))
    /\ Logged(Event("return", pc, 0))
    /\ params' = params + 1
    /\ inStep' = 0
    /\ failedInStep' = 0
    /\ backsInStep' = 0
    /\ pc' = "check"
    /\ UNCHANGED <<argVars, i, images, steps, warnings, phases, hookVars, interrupted,
                   interrupt, error, fin, imgVars, netVars, setupVars>>

\* lines 162-168; show(image) of line 167 only displays
Threshold ==
    /\ pc = "check"
    /\ Undisturbed
    /\ IF InThresholds(i, thresholds)
       THEN /\ images' = ThresholdImages(images, i, params)
            /\ lastEval' = IF verbose THEN Evaluate(hook, reached) ELSE lastEval
       ELSE UNCHANGED <<images, lastEval>>
    /\ pc' = "loop"
    /\ UNCHANGED <<argVars, i, params, steps, inStep, failedInStep, backsInStep,
                   warnings, phases, hook, reached, interrupted, interrupt, error, fin,
                   pairVars, imgVars, netVars, setupVars>>

\* A KeyboardInterrupt is delivered inside the try statement of lines 140-168
\* and the handler of lines 169-173 runs.  g = -1: outside a forward pass (in
\* the loop header, in the optimizer, in the threshold branch); g >= 0: inside
\* a closure invocation whose forward pass had completed g layers.
Interrupt(g) ==
    /\ pc \in {"loop", "opt", "check"}
    /\ ~interrupted
    /\ g >= 0 => (pc = "opt" /\ inStep < MaxClosure)
    /\ Env(Event("interrupt", pc, g))
    /\ Logged(Event("interrupt", pc, g))
    /\ interrupted' = TRUE
    /\ IF g >= 0
       THEN /\ inStep' = inStep + 1
            /\ hook' = Forward(hook, g + 1)
            /\ reached' = g
            /\ phases' = ClosurePhases(3)
       ELSE UNCHANGED <<inStep, hook, reached, phases>>
    /\ IF i = 0
       THEN \* line 170 formats i, which the loop has not bound yet
            /\ error' = "NameError"
            /\ pc' = "raised"
            /\ UNCHANGED <<images, lastEval>>
       ELSE /\ lastEval' = IF verbose THEN Evaluate(hook', reached') ELSE lastEval
            /\ images' = HandlerImages(images, i, params)
            /\ pc' = "prompt"
            /\ UNCHANGED error
    /\ UNCHANGED <<argVars, i, params, steps, failedInStep, backsInStep, warnings,
                   interrupt, fin, imgVars, netVars, setupVars>>

\* mutant: every answer but "y" declines
PromptOutcomeLoose(a) == IF a = "y" THEN "raise" ELSE "finalize"

\* lines 177-180: what follows the answer a
PromptOutcome(a) ==
    IF a = "y" THEN "raise" ELSE IF a = "n" THEN "finalize" ELSE "again"

\* mutant: after "n" the step loop is resumed
DeclinedToLoop == "loop"

\* lines 179-182: after "n" render_vis goes on after the try statement
DeclinedTo == "final"

\* lines 176-180: one answer to input(...)
Prompt(a) ==
    /\ pc = "prompt"
    /\ interrupt' = a
    /\ pc' = CASE PromptOutcome(a) = "raise" -> "raised"
               [] PromptOutcome(a) = "finalize" -> DeclinedTo
               [] OTHER -> "prompt"
    /\ error' = IF PromptOutcome(a) = "raise" THEN "KeyboardInterrupt" ELSE error
    /\ UNCHANGED <<argVars, loopVars, hookVars, interrupted, fin, pairVars,
                   imgVars, netVars, setupVars>>

\* export(image_f(), image_name), lines 224-243: render_vis passes its own
\* image_name, and Image.save has no file name to take the format from when
\* that is None
ExportFails(name) == name = "None"

\* lines 184-187: where the final image is displayed
Display(show_inline, show_image) ==
    [inline |-> show_inline, viewed |-> (~show_inline /\ show_image)]

\* lines 182-188; where the code returns, an option it did not read is
\* recorded as "unread"
Finalize(save_image, image_name, show_inline, show_image) ==
    /\ pc = "final"
    /\ IF save_image /\ ExportFails(image_name)
       THEN /\ fin' = [ran |-> TRUE, save_image |-> save_image,
                       image_name |-> image_name,
                       show_inline |-> IF show_inline THEN "True" ELSE "False",
                       show_image |-> IF show_image THEN "True" ELSE "False",
                       exported |-> FALSE, inline |-> FALSE, viewed |-> FALSE]
            /\ error' = "ValueError"
            /\ pc' = "raised"
       ELSE /\ fin' = [ran |-> TRUE, save_image |-> save_image,
                       image_name |-> IF save_image THEN image_name ELSE "unread",
                       show_inline |-> IF show_inline THEN "True" ELSE "False",
                       show_image |-> IF show_inline THEN "unread"
                                      ELSE IF show_image THEN "True" ELSE "False",
                       exported |-> save_image,
                       inline |-> Display(show_inline, show_image).inline,
                       viewed |-> Display(show_inline, show_image).viewed]
            /\ pc' = "returned"
            /\ UNCHANGED error
    /\ UNCHANGED <<argVars, loopVars, hookVars, interrupted, interrupt, pairVars,
                   imgVars, netVars, setupVars>>

Next ==
    \/ Setup
    \/ \E f \in FailPoints : WarmUp(f)
    \/ EnterLoop
    \/ LoopNext
    \/ \E f \in FailPoints : Closure(f)
    \/ StepReturn
    \/ Threshold
    \/ \E g \in -1..NLayers : Interrupt(g)
    \/ \E a \in Answers : Prompt(a)
    \/ \E s \in BOOLEAN, n \in ImageNames, si \in BOOLEAN, v \in BOOLEAN :
          Finalize(s, n, si, v)

Spec == Init /\ [][Next]_vars

\* ------------------------------------------- two calls, same environment
\* render_vis is called a second time with the same thresholds and other
\* options; model, optimizer and interruption behave as in the first call
Rerun(v) ==
    /\ run = 1
    /\ pc \in {"returned", "raised"}
    /\ prev' = [steps |-> steps, params |-> params, images |-> images,
                error |-> error]
    /\ todo' = log
    /\ log' = <<>>
    /\ run' = 2
    /\ verbose' = v
    /\ pc' = "setup"
    /\ i' = 0
    /\ images' = <<>>
    /\ params' = 0
    /\ steps' = 0
    /\ inStep' = 0
    /\ failedInStep' = 0
    /\ backsInStep' = 0
    /\ warnings' = 0
    /\ phases' = <<>>
    /\ hook' = [l \in Layers |-> "none"]
    /\ reached' = 0
    /\ lastEval' = NoEval
    /\ interrupted' = FALSE
    /\ interrupt' = "None"
    /\ error' = "none"
    /\ fin' = NoFin
    /\ UNCHANGED <<thresholds, imgVars, netVars, setupVars>>

PairThresholds == {th \in ThresholdInputs : Len(th) = 1}

PairInit == Start(1, PairThresholds)

PairNext == Next \/ \E v \in BOOLEAN : Rerun(v)

SpecPair == PairInit /\ [][PairNext]_vars

\* ------------------------------------------------- tensor_to_img_array
Channels == {1, 3}
Values == {-1, 0, 1, 2}

Cells(shape) == (1..shape[1]) \X (1..shape[2]) \X (1..shape[3]) \X (1..shape[4])

TensorShapes ==
    {sh \in (1..MaxBatch) \X Channels \X (1..MaxSide) \X (1..MaxSide) :
        sh[1] * sh[2] * sh[3] * sh[4] <= MaxElems}

\* the tensors image_f() may return: (batch, channel, height, width)
TensorInputs ==
    UNION {{[shape |-> sh, at |-> a] : a \in [Cells(sh) -> Values]} :
           sh \in TensorShapes}

\* lines 199-201: einops.rearrange(image, 'b c h w -> b h w c')
tensor_to_img_array(t) ==
    LET sh == <<t.shape[1], t.shape[3], t.shape[4], t.shape[2]>>
    IN  [shape |-> sh,
         at |-> [x \in Cells(sh) |-> t.at[<<x[1], x[4], x[2], x[3]>>]]]

Convert ==
    /\ array.shape = NoTensor.shape
    /\ tensor.shape # NoTensor.shape
    /\ array' = tensor_to_img_array(tensor)
    /\ UNCHANGED <<argVars, pc, loopVars, hookVars, interrupted, interrupt, error,
                   fin, pairVars, tensor, netVars, setupVars>>

ImgInit ==
    /\ tensor \in TensorInputs
    /\ array = NoTensor
    /\ thresholds = <<1>>
    /\ verbose = FALSE
    /\ pc = "tensor"
    /\ i = 0
    /\ images = <<>>
    /\ params = 0
    /\ steps = 0
    /\ inStep = 0
    /\ failedInStep = 0
    /\ backsInStep = 0
    /\ warnings = 0
    /\ phases = <<>>
    /\ hook = [l \in Layers |-> "none"]
    /\ reached = 0
    /\ lastEval = NoEval
    /\ interrupted = FALSE
    /\ interrupt = "None"
    /\ error = "none"
    /\ fin = NoFin
    /\ run = 0
    /\ log = <<>>
    /\ todo = <<>>
    /\ prev = NoPrev
    /\ NetIdle
    /\ SetupIdle

ImgNext == Convert

SpecImg == ImgInit /\ [][ImgNext]_vars

\* ------------------------------------------------------ get_model_layers
\* (src/lucent/modelzoo/util.py).  A submodule is [pos, name, kind]: pos is
\* its place in the module tree (the child indices from the root, in the
\* order of _modules), name its key in the parent's _modules, a string
\* given character by character, kind its class or "None" for an entry of
\* _modules that is None.
MaxNodes == 3      \* most submodules of a model

\* lines 26-56, 58-75, 77-97: one class of each list stands for the list
ACTIVATIONS == {"ReLU"}
NORMALIZATIONS == {"BatchNorm2d"}
POOLINGS == {"MaxPool2d"}
\* lines 142-144
Containers == {"Sequential", "ModuleDict", "ModuleList"}

Kinds == {"Conv2d", "None"} \cup Containers \cup ACTIVATIONS
           \cup NORMALIZATIONS \cup POOLINGS

\* what a caller may pass as model: an nn.Module, an nn.Module subclass
\* whose constructor never ran nn.Module.__init__ (it has no _modules), or
\* an object of another type
RootKinds == {"Module", "Uninitialised", "object"}

\* keys of _modules: plain ones, and one that contains the separator
Names == {<<"a">>, <<"b">>, <<"a", "-", ">", "b">>}
\* the keys nn.Sequential gives its children, in order
SiblingNames == <<"0", "1", "2", "3", "4">>

Parent(pos) == SubSeq(pos, 1, Len(pos) - 1)

\* net._modules.items() of line 135, in order
ChildrenOf(tree, p) == {n \in tree : n.pos # <<>> /\ Parent(n.pos) = p}

ChildAt(tree, p, k) == CHOOSE n \in tree : n.pos = Append(p, k)

\* "->".join(names), lines 149 and 151
RECURSIVE Join(_)
Join(names) ==
    IF Len(names) = 0 THEN <<>>
    ELSE IF Len(names) = 1 THEN names[1]
    ELSE names[1] \o <<"-", ">">> \o Join(Tail(names))

\* mutant: containers are listed like any other layer
ListedContainers(kind, f) ==
    /\ ~(kind \in NORMALIZATIONS /\ f.excludeNorms)
    /\ ~(kind \in ACTIVATIONS /\ f.excludeActs)
    /\ ~(kind \in POOLINGS /\ f.excludePools)

\* lines 141-147: the layer is entered into the result
Listed(kind, f) ==
    /\ kind \notin Containers
    /\ ~(kind \in NORMALIZATIONS /\ f.excludeNorms)
    /\ ~(kind \in ACTIVATIONS /\ f.excludeActs)
    /\ ~(kind \in POOLINGS /\ f.excludePools)

\* lines 149-151: layers[key] = repr on an OrderedDict keeps the place of a
\* key that is already there; layers.append(key) on a list always adds
Enter(acc, key, pos, f) ==
    IF f.getLayerRepr /\ \E k \in DOMAIN acc.paths : acc.paths[k] = key
    THEN LET k == CHOOSE j \in DOMAIN acc.paths : acc.paths[j] = key
         IN  [acc EXCEPT !.origin[k] = pos]
    ELSE [paths |-> Append(acc.paths, key), origin |-> Append(acc.origin, pos)]

\* lines 133-155: the loop of recursive_get_names(net, prefix) over the
\* children of the module at p, from the k-th on; prefix holds the names
\* from the root to p, acc what layers holds so far
RECURSIVE recursive_get_names(_, _, _, _, _, _)
recursive_get_names(tree, p, prefix, k, acc, f) ==
    IF k > Cardinality(ChildrenOf(tree, p)) THEN acc
    ELSE LET layer == ChildAt(tree, p, k)
             here == IF layer.kind # "None" /\ Listed(layer.kind, f)
                     THEN Enter(acc, Join(Append(prefix, layer.name)),
                                layer.pos, f)
                     ELSE acc
             below == IF layer.kind = "None" THEN here
                      ELSE recursive_get_names(tree, layer.pos,
                               Append(prefix, layer.name), 1, here, f)
         IN  recursive_get_names(tree, p, prefix, k + 1, below, f)

\* lines 128-129 and 134, 156-157: what makes get_model_layers raise
Raises(r) == r # "Module"

\* nn.Module.add_module: the module at p gets one more child
AddModule(p, name, kind) ==
    /\ pc = "layers"
    /\ ~layers.called
    /\ root = "Module"
    /\ Cardinality(net) < MaxNodes
    /\ p = <<>> \/ \E n \in net : n.pos = p /\ n.kind # "None"
    /\ \A n \in ChildrenOf(net, p) : n.name # name
    /\ net' = net \cup {[pos |-> Append(p, Cardinality(ChildrenOf(net, p)) + 1),
                         name |-> name, kind |-> kind]}
    /\ UNCHANGED <<argVars, pc, loopVars, hookVars, interrupted, interrupt, error,
                   fin, pairVars, imgVars, root, layers, setupVars>>

\* lines 100-161
get_model_layers(getLayerRepr, excludeNorms, excludeActs, excludePools) ==
    /\ pc = "layers"
    /\ ~layers.called
    /\ LET f == [getLayerRepr |-> getLayerRepr, excludeNorms |-> excludeNorms,
                 excludeActs |-> excludeActs, excludePools |-> excludePools]
           res == IF Raises(root) THEN [paths |-> <<>>, origin |-> <<>>]
                  ELSE recursive_get_names(net, <<>>, <<>>, 1,
                           [paths |-> <<>>, origin |-> <<>>], f)
       IN  layers' = [called |-> TRUE,
                      error |-> IF Raises(root) THEN "ValueError" ELSE "none",
                      getLayerRepr |-> getLayerRepr,
                      excludeNorms |-> excludeNorms,
                      excludeActs |-> excludeActs,
                      excludePools |-> excludePools,
                      paths |-> res.paths, origin |-> res.origin]
    /\ UNCHANGED <<argVars, pc, loopVars, hookVars, interrupted, interrupt, error,
                   fin, pairVars, imgVars, root, net, setupVars>>

\* the render variables while another function is modelled
Parked(at) ==
    /\ thresholds = <<1>>
    /\ verbose = FALSE
    /\ pc = at
    /\ i = 0
    /\ images = <<>>
    /\ params = 0
    /\ steps = 0
    /\ inStep = 0
    /\ failedInStep = 0
    /\ backsInStep = 0
    /\ warnings = 0
    /\ phases = <<>>
    /\ hook = [l \in Layers |-> "none"]
    /\ reached = 0
    /\ lastEval = NoEval
    /\ interrupted = FALSE
    /\ interrupt = "None"
    /\ error = "none"
    /\ fin = NoFin
    /\ run = 0
    /\ log = <<>>
    /\ todo = <<>>
    /\ prev = NoPrev
    /\ tensor = NoTensor
    /\ array = NoTensor

NetInit ==
    /\ Parked("layers")
    /\ root \in RootKinds
    /\ net = {}
    /\ layers = NoLayers
    /\ SetupIdle

Positions(tree) == {<<>>} \cup {n.pos : n \in tree}

Call ==
    \E r \in BOOLEAN, en \in BOOLEAN, ea \in BOOLEAN, ep \in BOOLEAN :
        get_model_layers(r, en, ea, ep)

\* models whose children are named as nn.Sequential names them
NetNext ==
    \/ \E p \in Positions(net), kind \in Kinds :
          AddModule(p, <<SiblingNames[Cardinality(ChildrenOf(net, p)) + 1]>>,
                    kind)
    \/ Call

SpecNet == NetInit /\ [][NetNext]_vars

\* models of plain layers whose children are named freely
PathNext ==
    \/ \E p \in Positions(net), name \in Names : AddModule(p, name, "Conv2d")
    \/ Call

SpecPaths == NetInit /\ [][PathNext]_vars

\* ------------------------------------------- render_vis: transform setup
\* lines 101-130.  A transform is [op, size]; size is the target size of an
\* interpolation and 0 for every other transform.
MaxCalls == 2      \* most calls of render_vis in a row
MinSize == 224     \* line 121: smallest side that is not resampled

Tr(op, size) == [op |-> op, size |-> size]

\* transform.standard_transforms (line 102), a list shared by all calls
StandardTransforms == <<Tr("pad", 0), Tr("jitter", 0)>>

\* lists a caller may pass as transforms
CallerLists == {<<>>, <<Tr("t1", 0)>>, <<Tr("t1", 0), Tr("t2", 0)>>}

ModelNames == {"InceptionV1", "ResNet"}

\* fixed_image_size: None, or an integer
FixedSizes ==
    {[given |-> FALSE, size |-> 0]}
        \cup {[given |-> TRUE, size |-> n] : n \in {0, MinSize - 1, MinSize + 1}}

\* height and width of image_f()
Sides == {MinSize - 1, MinSize, MinSize + 1}

\* lines 105-115
Normalization(model, preprocess_f) ==
    IF model \in {"InceptionV1"} THEN Tr("preprocess_inceptionv1", 0)
    ELSE IF preprocess_f = "None" THEN Tr("normalize", 0)
    ELSE Tr("preprocess_f", 0)

\* lines 119-124; [given |-> FALSE] stands for None
NewSize(fixed, h, w) ==
    IF fixed.given THEN fixed
    ELSE IF h < MinSize \/ w < MinSize THEN [given |-> TRUE, size |-> MinSize]
    ELSE [given |-> FALSE, size |-> 0]

\* line 125: if new_size
Truthy(ns) == ns.given /\ ns.size # 0

\* lines 103-130: what is appended to the copy of the list
Appended(preprocess, model, preprocess_f, fixed, h, w) ==
    (IF preprocess THEN <<Normalization(model, preprocess_f)>> ELSE <<>>)
        \o (IF Truthy(NewSize(fixed, h, w))
            THEN <<Tr("interpolate", NewSize(fixed, h, w).size)>>
            ELSE <<>>)

\* mutant: the appends go to the list itself
SourceAfterAppend(src, app) == src \o app

\* line 103: transforms = transforms.copy(); the list the name referred to
\* before is not the one lines 108-126 append to
SourceAfter(src, app) == src

\* lines 101-130 of one call of render_vis; the rest of the call does not
\* refer to the list
SetupTransforms(default, preprocess, model, preprocess_f, fixed, h, w) ==
    /\ pc = "transforms"
    /\ ncalls < MaxCalls
    /\ LET src == IF default THEN standard ELSE given
           app == Appended(preprocess, model, preprocess_f, fixed, h, w)
       IN  /\ pipeline' = src \o app
           /\ standard' = IF default THEN SourceAfter(standard, app)
                          ELSE standard
           /\ given' = IF default THEN given ELSE SourceAfter(given, app)
           /\ call' = [transforms |-> IF default THEN "None" ELSE "given",
                       source |-> src, preprocess |-> preprocess,
                       model |-> model, preprocess_f |-> preprocess_f,
                       fixed_image_size |-> fixed, height |-> h, width |-> w]
    /\ ncalls' = ncalls + 1
    /\ UNCHANGED <<argVars, pc, loopVars, hookVars, interrupted, interrupt, error,
                   fin, pairVars, imgVars, netVars>>

SetupInit ==
    /\ Parked("transforms")
    /\ NetIdle
    /\ given \in CallerLists
    /\ standard = StandardTransforms
    /\ pipeline = <<>>
    /\ call = NoCall
    /\ ncalls = 0

SetupNext ==
    \E default \in BOOLEAN, preprocess \in BOOLEAN, model \in ModelNames,
       preprocess_f \in {"None", "given"}, fixed \in FixedSizes,
       h \in Sides, w \in Sides :
        SetupTransforms(default, preprocess, model, preprocess_f, fixed, h, w)

SpecSetup == SetupInit /\ [][SetupNext]_vars

\* ---------------------------------------------------------- properties
Last(s) == s[Len(s)]

\* the step loop ran to its end without a KeyboardInterrupt
LoopEndedNormally == ~interrupted /\ (pc = "final" \/ fin.ran)

Distinct(th) == Range(th)

\* the j-th smallest element of the set S
NthSmallest(S, j) == CHOOSE t \in S : Cardinality({u \in S : u < t}) = j - 1

\* C1: when the step loop ended without an interruption, optimizer.step was
\* called exactly max(thresholds) times, for i = 1..max(thresholds), and
\* images holds exactly one snapshot per distinct threshold.
C1_StepsAndSnapshots ==
    LoopEndedNormally =>
        /\ steps \in Range(thresholds)
        /\ \A t \in Range(thresholds) : t <= steps
        /\ i = steps
        /\ Len(images) = Cardinality(Distinct(thresholds))

C1_Witness ==
    /\ pc = "returned"
    /\ ~interrupted
    /\ steps = 3
    /\ Len(thresholds) = 2
    /\ Len(images) = 2

\* C2: without an interruption, whatever the order of thresholds, the j-th
\* snapshot of images was taken in the step of the j-th smallest threshold
\* t_j, of the image after exactly t_j parameter updates.
C2_SnapshotOrder ==
    ~interrupted =>
        /\ Len(images) <= Cardinality(Distinct(thresholds))
        /\ \A j \in 1..Len(images) :
              LET t == NthSmallest(Distinct(thresholds), j)
              IN  images[j] = [step |-> t, params |-> t]

C2_Witness ==
    /\ pc = "returned"
    /\ ~interrupted
    /\ thresholds = <<3, 1>>
    /\ Len(images) = 2

\* C3: after a KeyboardInterrupt in step k (the handler has run), images ends
\* with a snapshot of the current image labelled with step k, whether or not k
\* is a threshold, and the snapshot of every threshold below k precedes it.
C3_InterruptSnapshot ==
    (interrupted /\ i >= 1) =>
        /\ images # <<>>
        /\ Last(images) = [step |-> i, params |-> params]
        /\ params \in {i - 1, i}
        /\ \A t \in Range(thresholds) :
              t < i => \E j \in 1..(Len(images) - 1) :
                          images[j] = [step |-> t, params |-> t]

C3_Witness ==
    /\ pc = "prompt"
    /\ interrupted
    /\ i = 2
    /\ \A t \in Range(thresholds) : t # 2
    /\ \E t \in Range(thresholds) : t > 2
    /\ Len(images) = 2
    /\ params = 1

\* C4: after an interruption render_vis stays at the prompt until the answer
\* is exactly "y" or "n"; any other answer changes nothing but the variable
\* holding it; "y" raises KeyboardInterrupt with no finalisation and no
\* return; "n" leads to finalisation with the collected snapshots unchanged;
\* KeyboardInterrupt leaves render_vis only after the answer "y".
C4_PromptState ==
    /\ pc = "prompt" => (interrupted /\ interrupt \notin {"y", "n"})
    /\ error = "KeyboardInterrupt" =>
          (interrupt = "y" /\ pc = "raised" /\ ~fin.ran)
    /\ (interrupted /\ (pc \in {"final", "returned"} \/ fin.ran)) =>
          interrupt = "n"

C4_PromptStep ==
    pc = "prompt" =>
        /\ interrupt' = "y" =>
              (pc' = "raised" /\ error' = "KeyboardInterrupt" /\ fin' = fin)
        /\ interrupt' = "n" =>
              (pc' = "final" /\ error' = error /\ images' = images)
        /\ interrupt' \notin {"y", "n"} =>
              UNCHANGED <<argVars, pc, loopVars, hookVars, interrupted, error,
                          fin, pairVars, imgVars, netVars, setupVars>>

C5_ForwardErrorsNeverSurface == error # "RuntimeError"

\* C6 as claimed: the warning is emitted at most once per run, and every
\* closure invocation of the step in progress reached loss.backward().
C6_WarnAtMostOnce ==
    /\ warnings <= 1
    /\ pc = "opt" => backsInStep = inStep

C6_WarnState ==
    /\ (pc = "opt" /\ i = 1) => warnings = failedInStep
    /\ pc = "opt" => backsInStep = inStep
    /\ failedInStep <= inStep

C6_WarnStep ==
    warnings' # warnings =>
        (i = 1 /\ i' = 1 /\ warnings' = warnings + 1
               /\ failedInStep' = failedInStep + 1)

\* C6 as amended: the warning is emitted only during step 1, once for every
\* closure invocation of step 1 whose forward pass raised; a failure in a
\* step i > 1 emits none; every closure invocation, failing or not, goes on
\* to evaluate the objective and to loss.backward().
C6_WarnOnlyInFirstStep == [](C6_WarnState) /\ [][C6_WarnStep]_vars

C6_Witness ==
    /\ pc = "opt"
    /\ i = 2
    /\ failedInStep = 1
    /\ backsInStep = 1
    /\ warnings = 2

\* C7 as claimed: at every objective evaluation every registry entry holds
\* the activation captured by the most recent forward pass.
C7_RegistryAllLatest ==
    lastEval.done => \A l \in Layers : lastEval.hook[l] = "latest"

\* C7 as amended: at every objective evaluation the entry of a layer that
\* the most recent forward pass reached holds the activation of that pass,
\* and the entry of a layer it did not reach is the one an earlier pass left
\* there, or none.
C7_RegistryReachedLatest ==
    lastEval.done =>
        \A l \in Layers :
            /\ l <= lastEval.reached => lastEval.hook[l] = "latest"
            /\ l > lastEval.reached => lastEval.hook[l] \in {"earlier", "none"}

C7_Witness ==
    /\ pc = "opt"
    /\ inStep > 0
    /\ lastEval.done
    /\ lastEval.reached = 1
    /\ lastEval.hook[2] = "earlier"

\* C8: the second of two calls that differ only in verbose, progress,
\* show_image, save_image, show_inline and image_name, and that was
\* interrupted where the first was if the first was, made as many optimizer
\* steps and parameter updates as the first, made every closure invocation
\* of the first, and took its snapshots at the same steps.
C8_OptionsDoNotAlter ==
    (/\ run = 2
     /\ pc \in {"returned", "raised"}
     /\ \A k \in 1..Len(todo) : todo[k].kind # "interrupt") =>
        /\ steps = prev.steps
        /\ params = prev.params
        /\ images = prev.images
        /\ \A k \in 1..Len(todo) : todo[k].kind # "closure"

\* C9: a snapshot is the image in channel-last layout, of shape
\* (batch, height, width, 3), with every element in [0, 1].
C9_SnapshotShapeAndRange ==
    array.shape # NoTensor.shape =>
        /\ array.shape = <<tensor.shape[1], tensor.shape[3], tensor.shape[4], 3>>
        /\ \A x \in DOMAIN array.at : 0 <= array.at[x] /\ array.at[x] <= 1

\* C10: finalisation runs exactly when the loop ended normally or the
\* interruption was declined; then the final image is exported iff
\* save_image, shown inline iff show_inline, shown in a viewer iff show_image
\* and not show_inline, never both; none of it after a confirmed cancellation.
C10_Finalization ==
    /\ fin.ran => (~interrupted \/ interrupt = "n")
    /\ pc = "returned" => fin.ran
    /\ fin.ran =>
          /\ fin.exported <=> fin.save_image
          /\ fin.inline <=> fin.show_inline = "True"
          /\ fin.viewed <=> (fin.show_image = "True" /\ fin.show_inline = "False")
          /\ ~(fin.inline /\ fin.viewed)
    /\ error = "KeyboardInterrupt" =>
          (~fin.ran /\ ~fin.exported /\ ~fin.inline /\ ~fin.viewed)

\* ------------------------------------------------ step loop: properties
\* the place of a phase in the order C13 names
PhaseRank ==
    [zero_grad |-> 1, transform |-> 2, forward |-> 3, objective |-> 4,
     backward |-> 5]

C13_PhaseOrder ==
    \A k \in DOMAIN phases : PhaseRank[phases[k]] = k

C13_LoopStep ==
    \* the closure runs only inside optimizer.step of the current step
    /\ inStep' > inStep => (pc = "opt" /\ steps = i /\ params = i - 1)
    \* an invocation that reaches back-propagation ran all five phases
    /\ backsInStep' > backsInStep => Len(phases') = 5
    \* the threshold check of step i follows the return of its optimizer.step
    /\ (pc = "check" /\ pc' = "loop") => (steps = i /\ params = i /\ inStep = 0)
    /\ (~interrupted' /\ Len(images') > Len(images)) => pc = "check"
    \* optimizer.step returns after any number of invocations
    /\ params' > params => (pc = "opt" /\ inStep \in 0..MaxClosure)

\* C13: every closure invocation runs zero_grad, transform, forward pass,
\* objective evaluation and back-propagation in this order; closure is
\* invoked only from inside optimizer.step, any number of times per step;
\* the threshold check of step i happens only after optimizer.step of step
\* i has returned.
C13_ClosureOrder == []C13_PhaseOrder /\ [][C13_LoopStep]_vars

\* the second step's optimizer.step invoked closure twice, the threshold
\* check of the first step is over
C13_Witness ==
    /\ pc = "opt"
    /\ i = 2
    /\ inStep = 2
    /\ backsInStep = 2
    /\ Len(phases) = 5
    /\ Len(images) = 1

\* C14: once a KeyboardInterrupt was delivered in the step loop, this call
\* starts no further optimizer.step, closure invocation or forward pass and
\* updates no parameter, whatever is answered at the prompt; the step that
\* was interrupted is not completed.
C14_LoopStep ==
    /\ interrupted =>
          /\ steps' = steps
          /\ i' = i
          /\ inStep' = inStep
          /\ phases' = phases
          /\ hook' = hook
          /\ reached' = reached
          /\ params' = params
          /\ backsInStep' = backsInStep
          /\ pc' \notin {"loop", "opt", "check"}
    /\ (~interrupted /\ interrupted') =>
          /\ steps' = steps
          /\ params' = params
          /\ backsInStep' = backsInStep
          /\ pc' \in {"prompt", "raised"}

C14_InterruptEndsLoop == [][C14_LoopStep]_vars

\* step 1 was interrupted, the user declined, and render_vis returned
\* without starting the steps up to max(thresholds)
C14_Witness ==
    /\ interrupted
    /\ interrupt = "n"
    /\ pc = "returned"
    /\ steps = 1
    /\ params = 0
    /\ \E k \in DOMAIN thresholds : thresholds[k] > 1

\* C18, as the specification states it: with save_image=True and no
\* image_name, finalisation saves the final image (under the default name
\* of export) and render_vis returns.  The code passes image_name=None on
\* to export, which has no file name to save under.
C18_DefaultImageName ==
    (fin.ran /\ fin.save_image /\ fin.image_name = "None") =>
        (fin.exported /\ error = "none")

\* the thresholds t with 1 <= t <= n
Passed(n) == {t \in Range(thresholds) : 1 <= t /\ t <= n}

\* the loop steps completed so far: step i is complete once its threshold
\* check is over
Completed == IF pc \in {"opt", "check"} THEN i - 1 ELSE i

C20_CountInLoop ==
    (pc \in {"loop", "opt", "check"} /\ ~interrupted) =>
        Len(images) = Cardinality(Passed(Completed))

C20_CountStep ==
    /\ (~interrupted /\ interrupted') => Len(images') = Len(images) + 1
    /\ interrupted => images' = images

C20_CountReturned ==
    pc = "returned" =>
        /\ Len(images) <= Cardinality(Range(thresholds)) + 1
        /\ Len(images) = Cardinality(Range(thresholds)) + 1 => interrupted

\* C20, as the specification states it: in the step loop the number of
\* snapshots is the number of distinct thresholds among the completed
\* steps; an interruption adds exactly one snapshot; a returned sequence
\* has at most (number of distinct thresholds) + 1 elements, the extra one
\* only in an interrupted run.  An interruption that arrives before the
\* loop variable is bound adds none.
C20_SnapshotCount ==
    /\ [](C20_CountInLoop /\ C20_CountReturned)
    /\ [][C20_CountStep]_vars

\* ------------------------------------------- get_model_layers: properties
\* C11, as the specification states it: get_model_layers raises ValueError
\* for a model that is not a network module and for a model without
\* modules; it never returns an empty result for a network that has no
\* submodules.  The code returns an empty result for such a network.
C11_ValueErrorWithoutModules ==
    layers.called =>
        /\ root # "Module" => layers.error = "ValueError"
        /\ (root = "Module" /\ net = {}) => layers.error = "ValueError"
        /\ (net = {} /\ layers.error = "none") => layers.paths # <<>>

\* str.split("->"): the pieces of s between the occurrences of the
\* separator, found from the left
RECURSIVE Split(_)
Split(s) ==
    LET at == {k \in 1..(Len(s) - 1) : s[k] = "-" /\ s[k + 1] = ">"}
    IN  IF at = {} THEN <<s>>
        ELSE LET k == CHOOSE j \in at : \A m \in at : j <= m
             IN  <<SubSeq(s, 1, k - 1)>> \o Split(SubSeq(s, k + 2, Len(s)))

\* the positions reached from p by following the names, one child each
RECURSIVE Follow(_, _, _)
Follow(tree, p, names) ==
    IF names = <<>> THEN {p}
    ELSE UNION {Follow(tree, n.pos, Tail(names)) :
                n \in {c \in ChildrenOf(tree, p) : c.name = Head(names)}}

\* C12, as the specification states it: no two entries of the result have
\* the same path, and splitting an entry's path at "->" and following the
\* names from the root reaches the submodule the entry was made for.  The
\* code joins names that may themselves contain "->".
C12_PathsIdentifySubmodules ==
    (layers.called /\ layers.error = "none") =>
        /\ \A j, k \in DOMAIN layers.paths :
              j # k => layers.paths[j] # layers.paths[k]
        /\ \A k \in DOMAIN layers.paths :
              Follow(net, <<>>, Split(layers.paths[k])) = {layers.origin[k]}

\* p comes before q in depth-first pre-order
Before(p, q) ==
    /\ p # q
    /\ \/ Len(p) < Len(q) /\ SubSeq(q, 1, Len(p)) = p
       \/ \E j \in 1..Len(p) :
             /\ j <= Len(q)
             /\ SubSeq(p, 1, j - 1) = SubSeq(q, 1, j - 1)
             /\ p[j] < q[j]

\* the names from the root to the submodule at pos, joined by "->"
PathOf(tree, pos) ==
    Join([j \in 1..Len(pos) |->
             (CHOOSE m \in tree : m.pos = SubSeq(pos, 1, j)).name])

\* the submodules the result is to list
Wanted ==
    {n \in net :
        /\ n.kind # "None"
        /\ n.kind \notin {"Sequential", "ModuleDict", "ModuleList"}
        /\ ~(layers.excludeNorms /\ n.kind \in NORMALIZATIONS)
        /\ ~(layers.excludeActs /\ n.kind \in ACTIVATIONS)
        /\ ~(layers.excludePools /\ n.kind \in POOLINGS)}

\* Wanted in depth-first pre-order
WantedSeq ==
    [k \in 1..Cardinality(Wanted) |->
        CHOOSE n \in Wanted :
            Cardinality({m \in Wanted : Before(m.pos, n.pos)}) = k - 1]

\* the first occurrences of the elements of s, in order
Firsts(s) ==
    LET keep == {k \in DOMAIN s : \A j \in 1..(k - 1) : s[j] # s[k]}
    IN  [k \in 1..Cardinality(keep) |->
            s[CHOOSE x \in keep : Cardinality({y \in keep : y < x}) = k - 1]]

\* C17: the result lists, in depth-first pre-order, exactly the paths of
\* the non-None descendants that are neither a container nor of a kind
\* excluded by the flags, whatever their ancestors are; with getLayerRepr
\* the keys of the mapping are these paths in the same order, a path
\* keeping the place of its first occurrence.
C17_PreOrderListing ==
    (layers.called /\ layers.error = "none") =>
        LET want == [k \in DOMAIN WantedSeq |-> PathOf(net, WantedSeq[k].pos)]
        IN  /\ ~layers.getLayerRepr => layers.paths = want
            /\ layers.getLayerRepr => layers.paths = Firsts(want)

\* a mapping was returned that lists a layer below an excluded activation
\* inside a container, and neither of the two
C17_Witness ==
    /\ layers.called
    /\ layers.error = "none"
    /\ layers.getLayerRepr
    /\ layers.excludeActs
    /\ Len(layers.paths) = 1
    /\ \E a, c \in net :
          /\ a.kind \in ACTIVATIONS
          /\ c.kind \in Containers
          /\ Parent(a.pos) = c.pos
          /\ Parent(layers.origin[1]) = a.pos

\* -------------------------------------------- transform setup: properties
\* the transforms the call added behind those of the list it was given
Added == SubSeq(pipeline, Len(call.source) + 1, Len(pipeline))

Resamplings == {k \in DOMAIN pipeline : pipeline[k].op = "interpolate"}

Normalizations ==
    {k \in DOMAIN pipeline :
        pipeline[k].op \in {"preprocess_f", "preprocess_inceptionv1",
                            "normalize"}}

\* C15, as the specification states it: a resampling transform is appended,
\* as the last transform, exactly if fixed_image_size is given (whatever its
\* value) or the height or the width is below 224; its target is the fixed
\* size if given and 224 otherwise.  The code appends nothing for
\* fixed_image_size = 0.
C15_ResamplingRule ==
    ncalls > 0 =>
        LET fixed == call.fixed_image_size
            due == fixed.given \/ call.height < 224 \/ call.width < 224
        IN  /\ due <=> Resamplings # {}
            /\ due => /\ Resamplings = {Len(pipeline)}
                      /\ pipeline[Len(pipeline)].size =
                            IF fixed.given THEN fixed.size ELSE 224

\* C16, as the specification states it: with preprocess exactly one
\* normalization is appended, right behind the transforms of the list and
\* before any resampling: preprocess_f whenever the caller gives one,
\* otherwise the InceptionV1 normalization for InceptionV1 and the generic
\* one for any other model; without preprocess none is appended.  The code
\* ignores preprocess_f for InceptionV1.
C16_NormalizationRule ==
    ncalls > 0 =>
        /\ ~call.preprocess => Normalizations = {}
        /\ call.preprocess =>
              /\ Normalizations = {Len(call.source) + 1}
              /\ \A k \in Resamplings : k > Len(call.source) + 1
              /\ pipeline[Len(call.source) + 1].op =
                    IF call.preprocess_f # "None" THEN "preprocess_f"
                    ELSE IF call.model = "InceptionV1"
                         THEN "preprocess_inceptionv1"
                    ELSE "normalize"

C19_ListsStep == given' = given /\ standard' = standard

C19_NoAccumulation ==
    /\ standard = StandardTransforms
    /\ given \in CallerLists
    /\ ncalls > 0 =>
          /\ SubSeq(pipeline, 1, Len(call.source)) = call.source
          /\ call.source = IF call.transforms = "None" THEN StandardTransforms
                           ELSE given
          /\ Len(Added) <= 2

\* C19: no call of render_vis changes the list it is given or the shared
\* default list: after any number of calls with any options both have the
\* elements they had before the first call, in the same order, and every
\* call composes its own pipeline from the unchanged list plus at most one
\* normalization and one resampling.
C19_TransformsNotMutated == []C19_NoAccumulation /\ [][C19_ListsStep]_vars

\* the second call in a row used the same list as the first and appended a
\* normalization and a resampling to its own copy
C19_Witness ==
    /\ ncalls = 2
    /\ Len(Added) = 2
    /\ Len(pipeline) = Len(call.source) + 2
    /\ call.transforms = "given"
    /\ given # <<>>
====
